---- MODULE Spec2Model ----
(***************************************************************************)
(* Verification model of the blade deployment template's storage logic:   *)
(*   - lib/hive-storage-config.js : HiveStorageConfig (strategy selection,*)
(*     migrateStorage, createBackup, restoreBackup)                        *)
(*   - the remote storage sync script (DatabaseSyncer and its storage     *)
(*     managers)                                                           *)
(* Each subsystem has its own specification over the shared variables:     *)
(*   SpecConfig, SpecBackup, SpecMigrate, SpecSync, SpecCrypto,            *)
(*   SpecScripts (scripts/backup-db.sh and restore-db.sh run side by side).*)
(***************************************************************************)
EXTENDS Integers, Sequences, FiniteSets, TLC

VARIABLES
  \* ---- HiveStorageConfig selection (SpecConfig)
  env,            \* process.env as read by the create*Storage methods (set or
                  \* not: type, AWS_ACCESS_KEY_ID, AWS_SECRET_ACCESS_KEY,
                  \* HIVE_S3_BUCKET, REMOTE_STORAGE_ENDPOINT, REMOTE_STORAGE_API_KEY;
                  \* sdk: whether @aws-sdk/client-s3 can be imported)
  storageConfig,  \* module-level singleton: "null" or "instance"
  config,         \* this.config : Null or the config object
  initialized,    \* this.initialized
  built,          \* number of config objects the getConfig switch obtained
  calls,          \* each getConfig call: its position and what it returned
  \* ---- storage behind the active strategy (SpecBackup)
  store,          \* key -> payload, the keys being the ones list() returns
  now,            \* the clock behind new Date()
  last,           \* the latest completed operation: inputs, pre-state, result
  prev,           \* the operation completed before it
  ops,            \* number of operations run so far
  \* ---- migrateStorage (SpecMigrate)
  fromStore,      \* fromConfig.storage
  toStore,        \* toConfig.storage
  mig,            \* the latest migrateStorage run
  \* ---- sync script (SpecSync)
  cfg,            \* CONFIG of the script, read once at process start: storageType,
                  \* whether remote.endpoint is set, whether the AWS SDK imports
  localDb,        \* content of <state dir>/databases/main/db.sqlite, or Absent
  remote,         \* remote objects: key -> Absent or [body, encrypted]
  backups,        \* files in CONFIG.backupDir: timestamp -> content
  clock,          \* Date.now() of the script
  proc,           \* the running script process
  runs,           \* number of script processes started so far
  \* ---- encrypt / decrypt of the sync script (SpecCrypto)
  crypt,          \* one encrypt call, what happens to its envelope, one decrypt
  \* ---- backup-db.sh and restore-db.sh (SpecScripts)
  stateDir,       \* BLADE_STATE_DIR: whether it exists and the files in it
  backupDir,      \* BACKUP_DIR: whether it exists and the archives in it
  bk,             \* the backup-db.sh process
  rs              \* the restore-db.sh process

configVars == <<env, storageConfig, config, initialized, built, calls>>
backupVars == <<store, now, last, prev, ops>>
migrateVars == <<fromStore, toStore, mig>>
syncVars == <<cfg, localDb, remote, backups, clock, proc, runs>>
cryptoVars == <<crypt>>
scriptVars == <<stateDir, backupDir, bk, rs>>
vars == <<configVars, backupVars, migrateVars, syncVars, cryptoVars, scriptVars>>

Null == "null"

\* --------------------------------------------------------------- bounds
MaxCalls == 2
MaxClock == 1
MaxOps == 2
MaxRuns == 2

\* ------------------------------------------------ values the idle parts hold
ConfigIdle ==
  /\ env = [type |-> "", awsKey |-> FALSE, awsSecret |-> FALSE, bucket |-> FALSE,
            endpoint |-> FALSE, apiKey |-> FALSE, sdk |-> FALSE]
  /\ storageConfig = Null
  /\ config = [id |-> 0, kind |-> "null", replicas |-> <<>>]
  /\ initialized = FALSE
  /\ built = 0
  /\ calls = <<>>

BackupIdle ==
  /\ store = <<>>
  /\ now = 0
  /\ last = <<>>
  /\ prev = <<>>
  /\ ops = 0

MigrateIdle ==
  /\ fromStore = <<>>
  /\ toStore = <<>>
  /\ mig = <<>>

SyncIdle ==
  /\ cfg = <<>>
  /\ localDb = <<>>
  /\ remote = <<>>
  /\ backups = <<>>
  /\ clock = 0
  /\ proc = <<>>
  /\ runs = 0

CryptoIdle == crypt = <<>>

ScriptsIdle ==
  /\ stateDir = <<>>
  /\ backupDir = <<>>
  /\ bk = <<>>
  /\ rs = <<>>

(***************************************************************************)
(* HiveStorageConfig.getConfig and the create*Storage methods              *)
(***************************************************************************)

\* The values HIVE_STORAGE_TYPE takes; "" is the unset variable.
StorageTypes == {"", "disk", "s3", "S3", "remote", "replication", "ftp"}

\* A comparison of HIVE_STORAGE_TYPE that keeps the case as written.
ToLowerCaseMutant(s) == s

\* String.prototype.toLowerCase on the values above.
ToLowerCase(s) == IF s = "S3" THEN "s3" ELSE s

\* process.env.HIVE_STORAGE_TYPE || 'disk'
StorageType == IF env.type = "" THEN "disk" ELSE env.type

\* The case the switch of getConfig takes.
SwitchCase(t) ==
  IF ToLowerCase(t) \in {"s3", "remote", "replication"} THEN ToLowerCase(t) ELSE "disk"

\* A config object {driver, storage}; id is the object's identity.
NewConfig(id, kind, replicas) == [id |-> id, kind |-> kind, replicas |-> replicas]

\* createS3Storage after its dynamic import: the credentials check.
S3CredentialsOk == env.awsKey /\ env.awsSecret

\* createRemoteStorage: the endpoint check. REMOTE_STORAGE_API_KEY is handed
\* to the RemoteStorage constructor as it is, set or not.
RemoteEndpointOk == env.endpoint

\* this.config = null, and the rejection a create*Storage call ends in.
NoConfig == NewConfig(0, "null", <<>>)
Thrown == NewConfig(0, "throw", <<>>)

IdleCall == [pc |-> "idle", pending |-> NoConfig, replicas |-> <<>>, ret |-> NoConfig]

\* getHiveStorageConfig: creates the singleton on first use.
GetHiveStorageConfig ==
  /\ storageConfig = Null
  /\ storageConfig' = "instance"
  /\ UNCHANGED <<env, config, initialized, built, calls>>
  /\ UNCHANGED <<backupVars, migrateVars, syncVars, cryptoVars, scriptVars>>

\* getConfig up to its first await.
GetConfigCall(c) ==
  /\ storageConfig = "instance"
  /\ calls[c].pc = "idle"
  /\ IF config # NoConfig
       THEN /\ calls' = [calls EXCEPT ![c].pc = "returned", ![c].ret = config]
            /\ UNCHANGED built
       ELSE CASE SwitchCase(StorageType) = "disk" ->
                   /\ built' = built + 1
                   /\ calls' = [calls EXCEPT ![c].pc = "await",
                                  ![c].pending = NewConfig(built + 1, "disk", <<>>)]
              [] SwitchCase(StorageType) = "s3" ->
                   /\ calls' = [calls EXCEPT ![c].pc = "import"]
                   /\ UNCHANGED built
              [] SwitchCase(StorageType) = "remote" ->
                   IF RemoteEndpointOk
                     THEN /\ built' = built + 1
                          /\ calls' = [calls EXCEPT ![c].pc = "await",
                                         ![c].pending = NewConfig(built + 1, "remote", <<>>)]
                     ELSE /\ calls' = [calls EXCEPT ![c].pc = "await", ![c].pending = Thrown]
                          /\ UNCHANGED built
              [] SwitchCase(StorageType) = "replication" ->
                   /\ calls' = [calls EXCEPT ![c].pc = "replPrimary"]
                   /\ UNCHANGED built
  /\ UNCHANGED <<env, storageConfig, config, initialized>>
  /\ UNCHANGED <<backupVars, migrateVars, syncVars, cryptoVars, scriptVars>>

\* createS3Storage resumes after `await import('@aws-sdk/client-s3')`.
S3ImportDone(c) ==
  /\ calls[c].pc = "import"
  /\ IF env.sdk /\ S3CredentialsOk
       THEN /\ built' = built + 1
            /\ calls' = [calls EXCEPT ![c].pc = "await",
                           ![c].pending = NewConfig(built + 1, "s3", <<>>)]
       ELSE /\ calls' = [calls EXCEPT ![c].pc = "await", ![c].pending = Thrown]
            /\ UNCHANGED built
  /\ UNCHANGED <<env, storageConfig, config, initialized>>
  /\ UNCHANGED <<backupVars, migrateVars, syncVars, cryptoVars, scriptVars>>

\* createReplicationStorage resumes with the disk primary; the S3 replica is
\* attempted when AWS_ACCESS_KEY_ID and HIVE_S3_BUCKET are set.
ReplPrimaryDone(c) ==
  /\ calls[c].pc = "replPrimary"
  /\ calls' = [calls EXCEPT ![c].pc = IF env.awsKey /\ env.bucket THEN "replS3" ELSE "replRemote"]
  /\ UNCHANGED <<env, storageConfig, config, initialized, built>>
  /\ UNCHANGED <<backupVars, migrateVars, syncVars, cryptoVars, scriptVars>>

\* An S3 replica whose failure escapes createReplicationStorage.
ReplS3DoneMutant(c) ==
  /\ calls[c].pc = "replS3"
  /\ calls' = IF env.sdk /\ S3CredentialsOk
                THEN [calls EXCEPT ![c].pc = "replRemote", ![c].replicas = <<"s3">>]
                ELSE [calls EXCEPT ![c].pc = "await", ![c].pending = Thrown]
  /\ UNCHANGED <<env, storageConfig, config, initialized, built>>
  /\ UNCHANGED <<backupVars, migrateVars, syncVars, cryptoVars, scriptVars>>

\* The S3 replica: pushed when createS3Storage returns, skipped when it throws.
ReplS3Done(c) ==
  /\ calls[c].pc = "replS3"
  /\ calls' = [calls EXCEPT ![c].pc = "replRemote",
                 ![c].replicas = IF env.sdk /\ S3CredentialsOk THEN <<"s3">> ELSE <<>>]
  /\ UNCHANGED <<env, storageConfig, config, initialized, built>>
  /\ UNCHANGED <<backupVars, migrateVars, syncVars, cryptoVars, scriptVars>>

\* The remote replica, attempted when REMOTE_STORAGE_ENDPOINT is set, and the
\* composite's construction.
ReplRemoteDone(c) ==
  /\ calls[c].pc = "replRemote"
  /\ built' = built + 1
  /\ LET reps == IF env.endpoint /\ RemoteEndpointOk
                   THEN Append(calls[c].replicas, "remote") ELSE calls[c].replicas
     IN calls' = [calls EXCEPT ![c].pc = "await", ![c].replicas = reps,
                    ![c].pending = NewConfig(built + 1, "replication", reps)]
  /\ UNCHANGED <<env, storageConfig, config, initialized>>
  /\ UNCHANGED <<backupVars, migrateVars, syncVars, cryptoVars, scriptVars>>

\* A getConfig that marks the instance initialized whatever the await gave.
GetConfigResumeMutant(c) ==
  /\ calls[c].pc = "await"
  /\ initialized' = TRUE
  /\ IF calls[c].pending = Thrown
       THEN /\ calls' = [calls EXCEPT ![c].pc = "threw", ![c].pending = NoConfig]
            /\ UNCHANGED config
       ELSE /\ config' = calls[c].pending
            /\ calls' = [calls EXCEPT ![c].pc = "returned", ![c].pending = NoConfig,
                           ![c].ret = calls[c].pending]
  /\ UNCHANGED <<env, storageConfig, built>>
  /\ UNCHANGED <<backupVars, migrateVars, syncVars, cryptoVars, scriptVars>>

\* getConfig resumes after `this.config = await this.create...Storage()`.
GetConfigResume(c) ==
  /\ calls[c].pc = "await"
  /\ IF calls[c].pending = Thrown
       THEN /\ calls' = [calls EXCEPT ![c].pc = "threw", ![c].pending = NoConfig]
            /\ UNCHANGED <<config, initialized>>
       ELSE /\ config' = calls[c].pending
            /\ initialized' = TRUE
            /\ calls' = [calls EXCEPT ![c].pc = "returned", ![c].pending = NoConfig,
                           ![c].ret = calls[c].pending]
  /\ UNCHANGED <<env, storageConfig, built>>
  /\ UNCHANGED <<backupVars, migrateVars, syncVars, cryptoVars, scriptVars>>

InitConfig ==
  /\ env \in [type : StorageTypes, awsKey : BOOLEAN, awsSecret : BOOLEAN,
              bucket : BOOLEAN, endpoint : BOOLEAN, apiKey : BOOLEAN, sdk : BOOLEAN]
  /\ storageConfig = Null
  /\ config = NoConfig
  /\ initialized = FALSE
  /\ built = 0
  /\ calls = [c \in 1..MaxCalls |-> IdleCall]
  /\ BackupIdle /\ MigrateIdle /\ SyncIdle /\ CryptoIdle /\ ScriptsIdle

NextConfig ==
  \/ GetHiveStorageConfig
  \/ \E c \in 1..MaxCalls : GetConfigCall(c)
  \/ \E c \in 1..MaxCalls : S3ImportDone(c)
  \/ \E c \in 1..MaxCalls : ReplPrimaryDone(c)
  \/ \E c \in 1..MaxCalls : ReplS3Done(c)
  \/ \E c \in 1..MaxCalls : ReplRemoteDone(c)
  \/ \E c \in 1..MaxCalls : GetConfigResume(c)

SpecConfig == InitConfig /\ [][NextConfig]_vars

Returned == {c \in DOMAIN calls : calls[c].pc = "returned"}

\* C1: for one HiveStorageConfig instance, across any number of getConfig
\* calls, overlapping ones included, a strategy is constructed exactly once
\* and every call returns the same config object.
C1_ConstructedOnce ==
  /\ built <= 1
  /\ \A c, d \in Returned : calls[c].ret = calls[d].ret

Threw == {c \in DOMAIN calls : calls[c].pc = "threw"}

\* A credential or endpoint the selected backend names is not set.
MissingCredential ==
  \/ env.type \in {"s3", "S3"} /\ (~env.awsKey \/ ~env.awsSecret)
  \/ env.type = "remote" /\ (~env.endpoint \/ ~env.apiKey)

\* C11: when HIVE_STORAGE_TYPE selects s3 or remote and a required credential
\* or endpoint (AWS_ACCESS_KEY_ID, AWS_SECRET_ACCESS_KEY,
\* REMOTE_STORAGE_ENDPOINT or REMOTE_STORAGE_API_KEY) is missing, getConfig
\* throws: no call returns a config, no strategy is stored and initialized
\* stays false.
C11_MissingCredentialThrows ==
  MissingCredential =>
    /\ Returned = {}
    /\ config = NoConfig
    /\ initialized = FALSE

\* The strategy each value of HIVE_STORAGE_TYPE stands for.
SelectedKind ==
  CASE env.type \in {"s3", "S3"} -> "s3"
    [] env.type = "remote" -> "remote"
    [] env.type = "replication" -> "replication"
    [] env.type \in {"", "disk", "ftp"} -> "disk"

\* C12: getConfig selects the strategy from HIVE_STORAGE_TYPE alone, without
\* regard to case: s3 gives the S3 strategy, remote the remote-API strategy,
\* replication the composite, and disk, the unset variable and any other
\* value the disk strategy; the stored config is of that one strategy, and
\* so is what every call returns.
C12_SelectedByStorageType ==
  /\ config # NoConfig => config.kind = SelectedKind
  /\ \A c \in Returned : calls[c].ret.kind = SelectedKind
  /\ \A c \in DOMAIN calls :
       calls[c].pending \notin {NoConfig, Thrown} => calls[c].pending.kind = SelectedKind

C12_Witness ==
  /\ env.type = "S3"
  /\ initialized
  /\ config.kind = "s3"
  /\ Returned # {}

\* The replicas createReplicationStorage ends with, from the environment.
ConfiguredReplicas ==
  (IF env.awsKey /\ env.bucket /\ env.awsSecret /\ env.sdk THEN <<"s3">> ELSE <<>>)
    \o (IF env.endpoint THEN <<"remote">> ELSE <<>>)

\* C13: with HIVE_STORAGE_TYPE = replication, getConfig never fails because
\* of a replica: no call throws, the config is the composite over the disk
\* primary, and its replicas are exactly the S3 and remote replicas that are
\* configured and construct successfully (a replica whose construction
\* throws is skipped), possibly none.
C13_ReplicationNeverFails ==
  env.type = "replication" =>
    /\ Threw = {}
    /\ \A c \in DOMAIN calls : calls[c].pending # Thrown
    /\ \A c \in Returned :
         /\ calls[c].ret.kind = "replication"
         /\ calls[c].ret.replicas = ConfiguredReplicas

C13_Witness ==
  /\ env.type = "replication"
  /\ env.awsKey /\ env.bucket /\ ~env.awsSecret
  /\ initialized
  /\ \E c \in Returned : calls[c].ret.replicas = <<>>

\* The positions of a getConfig call that is constructing a strategy.
Constructing == {"await", "import", "replPrimary", "replS3", "replRemote"}

\* C26: initialized is true only if config is set; when the construction of
\* the strategy throws, getConfig ends with the error and leaves config null
\* and initialized false, and a getConfig call made after that attempts the
\* construction again instead of returning.
C26_InitializedOnlyWithConfig ==
  /\ [](initialized => config # NoConfig)
  /\ [](Threw # {} => config = NoConfig /\ initialized = FALSE)
  /\ [][\A c \in DOMAIN calls :
          /\ (calls[c].pc # "threw" /\ calls'[c].pc = "threw") =>
               config' = config /\ initialized' = initialized
          /\ (Threw # {} /\ calls[c].pc = "idle" /\ calls'[c].pc # "idle") =>
               calls'[c].pc \in Constructing]_vars

C26_Witness ==
  /\ initialized = FALSE /\ config = NoConfig
  /\ \E c, d \in DOMAIN calls :
       /\ calls[c].pc = "threw"
       /\ calls[d].pc \in Constructing

(***************************************************************************)
(* The storage strategy behind config.storage, createBackup, restoreBackup *)
(***************************************************************************)

\* A key is the sequence of its parts: 'backups/backup-n1' is
\* <<"backups/", "backup-", "n1">>, 'a' is <<"a">>.
UserKeys == <<(<<"a">>), (<<"b">>)>>

\* key.startsWith('backups/')
StartsWithBackups(k) == Len(k) >= 1 /\ k[1] = "backups/"

\* new Date().toISOString().replace(/[:.]/g, '-') : one string per instant.
Timestamp(t) == ToString(t)

\* A backup key that is always the timestamp's.
BackupKeyMutant(backupName, t) == <<"backups/", "backup-", Timestamp(t)>>

\* `backups/backup-${backupName || timestamp}`; "" is the missing (null) name.
BackupKey(backupName, t) ==
  <<"backups/", "backup-", IF backupName # "" THEN backupName ELSE Timestamp(t)>>

\* Payloads: a string, or the string JSON.stringify returns for a value.
Text(v) == [kind |-> "text", val |-> v]
JSONStringify(v) == [kind |-> "json", val |-> v]
\* What get gives for a key the storage does not hold.
NotFound == [kind |-> "undefined", val |-> ""]
\* Whether JSON.parse(p) returns (it throws otherwise), and what it returns.
JSONParses(p) == p.kind = "json"
JSONParse(p) == p.val

\* crypto.createHash('sha256').update(x).digest('hex'): one digest per payload.
Sha256(x) == [sha256 |-> x]

Names == {"", "n1"}

\* Every key of the model in the order list() returns keys.
KeyUniverse ==
  UserKeys \o <<(<<"c">>), (<<"health-check">>), BackupKey("n1", 0), BackupKey("old", 0)>>
    \o [i \in 1..(MaxClock + 1) |-> BackupKey("", i - 1)]

\* storage.list()
List(s) == SelectSeq(KeyUniverse, LAMBDA k : k \in DOMAIN s)

\* storage.set(key, data)
Put(s, k, v) == [x \in DOMAIN s \cup {k} |-> IF x = k THEN v ELSE s[x]]

\* BackupData with every entry holding the payload of the first key read.
BackupDataMutant(s, allKeys) ==
  LET ks == SelectSeq(allKeys, LAMBDA k : ~StartsWithBackups(k))
  IN [i \in 1..Len(ks) |-> <<ks[i], s[ks[1]]>>]

\* The backupData object createBackup fills, as its entries in insertion order.
BackupData(s, allKeys) ==
  LET ks == SelectSeq(allKeys, LAMBDA k : ~StartsWithBackups(k))
  IN [i \in 1..Len(ks) |-> <<ks[i], s[ks[i]]>>]

\* The object createBackup stringifies.
BackupRecord(s, t) ==
  [timestamp |-> t, keys |-> List(s), data |-> BackupData(s, List(s)), version |-> "1.0"]

NoRecord == [timestamp |-> 0, keys |-> <<>>, data |-> <<>>, version |-> "none"]
NoKey == <<>>

\* The store after the first n entries of a record's data were set.
RECURSIVE SetEntries(_, _, _)
SetEntries(s, entries, n) ==
  IF n = 0 THEN s
  ELSE Put(SetEntries(s, entries, n - 1), entries[n][1], entries[n][2])

\* RestoreWrites rolling the store back when a set throws.
RestoreWritesMutant(s, entries, failAt) ==
  IF failAt = 0 THEN SetEntries(s, entries, Len(entries)) ELSE s

\* A restore that first drops every key the record does not hold.
RestoreWritesClearMutant(s, entries, failAt) ==
  LET kept == {k \in DOMAIN s : \E i \in DOMAIN entries : entries[i][1] = k}
  IN SetEntries([k \in kept |-> s[k]], entries,
                IF failAt = 0 THEN Len(entries) ELSE failAt - 1)

\* restoreBackup's loop: failAt = 0 when no set throws, else the index of the
\* entry whose set throws.
RestoreWrites(s, entries, failAt) ==
  SetEntries(s, entries, IF failAt = 0 THEN Len(entries) ELSE failAt - 1)

NoOp == [op |-> "none", name |-> "", key |-> NoKey, ok |-> FALSE, pre |-> <<>>,
         rec |-> NoRecord, failedAt |-> 0, err |-> "none"]

\* name: the backupName argument of a createBackup call, "" for the others.
Done(op, name, key, ok, rec, failedAt, err) ==
  /\ last' = [op |-> op, name |-> name, key |-> key, ok |-> ok, pre |-> store,
              rec |-> rec, failedAt |-> failedAt, err |-> err]
  /\ prev' = last
  /\ ops' = ops + 1

\* Another user of the storage sets a key.
Set(k, v) ==
  /\ ops < MaxOps
  /\ store' = Put(store, k, Text(v))
  /\ Done("set", "", k, TRUE, NoRecord, 0, "none")
  /\ UNCHANGED now
  /\ UNCHANGED <<configVars, migrateVars, syncVars, cryptoVars, scriptVars>>

\* Another user of the storage deletes a key.
Delete(k) ==
  /\ ops < MaxOps
  /\ k \in DOMAIN store
  /\ store' = [x \in DOMAIN store \ {k} |-> store[x]]
  /\ Done("delete", "", k, TRUE, NoRecord, 0, "none")
  /\ UNCHANGED now
  /\ UNCHANGED <<configVars, migrateVars, syncVars, cryptoVars, scriptVars>>

\* Time passes.
Tick ==
  /\ now < MaxClock
  /\ now' = now + 1
  /\ UNCHANGED <<store, last, prev, ops>>
  /\ UNCHANGED <<configVars, migrateVars, syncVars, cryptoVars, scriptVars>>

\* createBackup(backupName); err is the storage call that throws, if any.
CreateBackup(backupName, err) ==
  /\ ops < MaxOps
  /\ err \in {"none", "list", "get", "set"}
  /\ err = "get" => \E k \in DOMAIN store : ~StartsWithBackups(k)
  /\ LET backupKey == BackupKey(backupName, now)
         record == BackupRecord(store, now)
     IN IF err = "none"
          THEN /\ store' = Put(store, backupKey, JSONStringify(record))
               /\ Done("createBackup", backupName, backupKey, TRUE, record, 0, err)
          ELSE /\ store' = store
               /\ Done("createBackup", backupName, backupKey, FALSE, NoRecord, 0, err)
  /\ UNCHANGED now
  /\ UNCHANGED <<configVars, migrateVars, syncVars, cryptoVars, scriptVars>>

\* `hive-storage-test-${Date.now()}`
TestData(t) == Text("hive-storage-test-" \o ToString(t))

HealthCheckKey == <<"health-check">>

\* storage.delete(key)
Without(s, k) == [x \in DOMAIN s \ {k} |-> s[x]]

StatusFailures == {"none", "set", "get", "mismatch", "delete"}

\* A status whose healthy flag stays as computed when the delete throws.
StorageStatusMutant(s, t, fail) ==
  LET written == Put(s, HealthCheckKey, TestData(t))
  IN CASE fail = "set" -> [store |-> s, healthy |-> FALSE, error |-> TRUE]
       [] fail = "get" -> [store |-> written, healthy |-> FALSE, error |-> TRUE]
       [] fail = "mismatch" ->
            [store |-> Without(written, HealthCheckKey), healthy |-> FALSE, error |-> FALSE]
       [] fail = "delete" -> [store |-> written, healthy |-> TRUE, error |-> TRUE]
       [] fail = "none" ->
            [store |-> Without(written, HealthCheckKey), healthy |-> TRUE, error |-> FALSE]

\* The try block of getStorageStatus: set, get, compare, delete; fail is the
\* storage call that throws ("mismatch": get returns another value).
StorageStatus(s, t, fail) ==
  LET written == Put(s, HealthCheckKey, TestData(t))
  IN CASE fail = "set" -> [store |-> s, healthy |-> FALSE, error |-> TRUE]
       [] fail = "get" -> [store |-> written, healthy |-> FALSE, error |-> TRUE]
       [] fail = "mismatch" ->
            [store |-> Without(written, HealthCheckKey), healthy |-> FALSE, error |-> FALSE]
       [] fail = "delete" -> [store |-> written, healthy |-> FALSE, error |-> TRUE]
       [] fail = "none" ->
            [store |-> Without(written, HealthCheckKey), healthy |-> TRUE, error |-> FALSE]

\* getStorageStatus(): returns the status; last.ok is status.healthy.
GetStorageStatus(fail) ==
  /\ ops < MaxOps
  /\ LET status == StorageStatus(store, now, fail)
     IN /\ store' = status.store
        /\ Done("getStorageStatus", "", HealthCheckKey, status.healthy, NoRecord, 0,
                IF status.error THEN fail ELSE "none")
  /\ UNCHANGED now
  /\ UNCHANGED <<configVars, migrateVars, syncVars, cryptoVars, scriptVars>>

\* restoreBackup(backupKey); getThrows: storage.get throws; failAt: the entry
\* whose set throws (0: none).
RestoreBackup(backupKey, getThrows, failAt) ==
  /\ ops < MaxOps
  /\ LET backupData == IF backupKey \in DOMAIN store THEN store[backupKey] ELSE NotFound
     IN IF getThrows
          THEN /\ failAt = 0
               /\ store' = store
               /\ Done("restoreBackup", "", backupKey, FALSE, NoRecord, 0, "get")
          ELSE IF ~JSONParses(backupData)
          THEN /\ failAt = 0
               /\ store' = store
               /\ Done("restoreBackup", "", backupKey, FALSE, NoRecord, 0, "parse")
          ELSE LET backup == JSONParse(backupData)
               IN /\ failAt \in 0..Len(backup.data)
                  /\ store' = RestoreWrites(store, backup.data, failAt)
                  /\ Done("restoreBackup", "", backupKey, failAt = 0, backup, failAt,
                          IF failAt = 0 THEN "none" ELSE "set")
  /\ UNCHANGED now
  /\ UNCHANGED <<configVars, migrateVars, syncVars, cryptoVars, scriptVars>>

Values == {"v1", "v2"}

\* Stores holding user keys only.
UserStores ==
  UNION {[D -> {Text(v) : v \in Values}] : D \in SUBSET {UserKeys[i] : i \in 1..Len(UserKeys)}}

\* The storage at the start: user keys, and possibly a backup that an earlier
\* createBackup('old') wrote when the user keys were as in `then`.
InitBackup ==
  /\ \E s \in UserStores :
       \/ store = s
       \/ \E then \in UserStores :
            /\ DOMAIN then # {}
            /\ \A k \in DOMAIN then : then[k] = Text("v1")
            /\ store = Put(s, BackupKey("old", 0), JSONStringify(BackupRecord(then, 0)))
  /\ now = 0
  /\ last = NoOp
  /\ prev = NoOp
  /\ ops = 0
  /\ ConfigIdle /\ MigrateIdle /\ SyncIdle /\ CryptoIdle /\ ScriptsIdle

NextBackup ==
  \/ \E i \in 1..Len(UserKeys), v \in Values : Set(UserKeys[i], v)
  \/ \E k \in DOMAIN store : Delete(k)
  \/ Tick
  \/ \E n \in Names, err \in {"none", "list", "get", "set"} : CreateBackup(n, err)
  \/ \E fail \in StatusFailures : GetStorageStatus(fail)
  \/ \E k \in DOMAIN store \cup {BackupKey("n1", 0)}, g \in BOOLEAN, f \in 0..Len(UserKeys) :
       RestoreBackup(k, g, f)

SpecBackup == InitBackup /\ [][NextBackup]_vars

\* ---------------------------------------------------------------- claims

Range(f) == {f[i] : i \in DOMAIN f}
DataKeys(rec) == {rec.data[i][1] : i \in DOMAIN rec.data}

BackupThenRestore ==
  /\ prev.op = "createBackup" /\ prev.ok
  /\ last.op = "restoreBackup" /\ last.ok
  /\ last.key = prev.key

ChecksumMatches(rec) == "checksum" \in DOMAIN rec /\ rec.checksum = Sha256(rec.data)

\* C3: restoreBackup verifies the record's checksum (SHA-256 of its payload)
\* before restoring; on a mismatch the restore is aborted with an error and no
\* key is written.
C3_ChecksumVerifiedOnRestore ==
  (last.op = "restoreBackup" /\ last.rec # NoRecord /\ ~ChecksumMatches(last.rec)) =>
    (~last.ok /\ store = last.pre)

\* C4: the record createBackup writes is a snapshot of exactly the non-backup
\* keys: neither its keys list nor its data map holds a key starting with
\* 'backups/', and both hold every other key present at backup time.
C4_SnapshotOfNonBackupKeys ==
  (last.op = "createBackup" /\ last.ok) =>
    /\ \A k \in Range(last.rec.keys) \cup DataKeys(last.rec) : ~StartsWithBackups(k)
    /\ \A k \in DOMAIN last.pre :
         ~StartsWithBackups(k) => k \in Range(last.rec.keys) /\ k \in DataKeys(last.rec)

\* C5: restoreBackup is not transactional: it sets the record's pairs one at a
\* time; when the set of one pair throws it stops and rethrows that error, the
\* pairs before it keep their restored payloads, the pairs from it on keep
\* their old payloads, and nothing is rolled back.
C5_RestoreNotTransactional ==
  (last.op = "restoreBackup" /\ last.failedAt > 0) =>
    /\ ~last.ok /\ last.err = "set"
    /\ \A i \in DOMAIN last.rec.data :
         LET k == last.rec.data[i][1]
         IN IF i < last.failedAt
              THEN k \in DOMAIN store /\ store[k] = last.rec.data[i][2]
              ELSE IF k \in DOMAIN last.pre
                     THEN k \in DOMAIN store /\ store[k] = last.pre[k]
                     ELSE k \notin DOMAIN store
    /\ \A k \in (DOMAIN store \cup DOMAIN last.pre) \ DataKeys(last.rec) :
         k \in DOMAIN store /\ k \in DOMAIN last.pre /\ store[k] = last.pre[k]

C5_Witness ==
  /\ last.op = "restoreBackup" /\ last.failedAt = 2
  /\ Len(last.rec.data) = 2
  /\ \A i \in 1..2 : last.rec.data[i][1] \in DOMAIN last.pre
  /\ last.pre[last.rec.data[1][1]] # last.rec.data[1][2]
  /\ store[last.rec.data[1][1]] = last.rec.data[1][2]
  /\ store[last.rec.data[2][1]] # last.rec.data[2][2]

\* C28: restoreBackup only writes the keys of the record's data map: it
\* deletes no key, so a key created after the backup stays with its current
\* payload, and no key under 'backups/' is changed by a restore.
C28_RestoreOnlyWritesDataKeys ==
  last.op = "restoreBackup" =>
    /\ DOMAIN last.pre \subseteq DOMAIN store
    /\ \A k \in DOMAIN store :
         (k \notin DOMAIN last.pre \/ store[k] # last.pre[k]) => k \in DataKeys(last.rec)
    /\ \A k \in DOMAIN store :
         StartsWithBackups(k) => k \in DOMAIN last.pre /\ store[k] = last.pre[k]

C28_Witness ==
  /\ last.op = "restoreBackup" /\ last.ok
  /\ store # last.pre
  /\ \E k \in DOMAIN last.pre :
       /\ ~StartsWithBackups(k)
       /\ k \notin DataKeys(last.rec)
       /\ k \in DOMAIN store /\ store[k] = last.pre[k]

\* C29: getStorageStatus reports healthy = true only if the write of
\* 'health-check', the read of the identical value and the delete all
\* succeeded; it changes no key other than 'health-check'; a storage call
\* that throws makes it return healthy = false with the error instead of
\* throwing; and after healthy = true the key 'health-check' is absent.
C29_StorageStatus ==
  last.op = "getStorageStatus" =>
    /\ last.ok =>
         /\ last.err = "none"
         /\ HealthCheckKey \notin DOMAIN store
    /\ last.err \in {"set", "get", "delete"} => ~last.ok
    /\ \A k \in (DOMAIN store \cup DOMAIN last.pre) \ {HealthCheckKey} :
         k \in DOMAIN store /\ k \in DOMAIN last.pre /\ store[k] = last.pre[k]

C29_Witness ==
  /\ last.op = "getStorageStatus" /\ last.ok
  /\ DOMAIN last.pre # {}
  /\ store = Without(last.pre, HealthCheckKey)

\* C20: createBackup(name) returns 'backups/backup-<name>' for a non-empty
\* name and otherwise a key under 'backups/' made from the timestamp; when it
\* returns, the backup record is stored at exactly that key and every other
\* key holds the payload it held before; when listing the keys or reading a
\* key fails, it throws and has written nothing.
C20_CreateBackupKeyAndWrites ==
  last.op = "createBackup" =>
    /\ last.ok =>
         /\ IF last.name # ""
              THEN last.key = <<"backups/", "backup-", last.name>>
              ELSE \E t \in 0..last.rec.timestamp :
                     last.key = <<"backups/", "backup-", Timestamp(t)>>
         /\ last.rec.version = "1.0" /\ last.rec.keys = List(last.pre)
         /\ DOMAIN store = DOMAIN last.pre \cup {last.key}
         /\ store[last.key] = JSONStringify(last.rec)
         /\ \A k \in DOMAIN last.pre \ {last.key} : store[k] = last.pre[k]
    /\ last.err \in {"list", "get"} => ~last.ok /\ store = last.pre

C20_Witness ==
  /\ last.op = "createBackup" /\ last.ok
  /\ last.name = "n1"
  /\ last.key = <<"backups/", "backup-", "n1">>
  /\ \E k \in DOMAIN last.pre : ~StartsWithBackups(k) /\ store[k] = last.pre[k]
  /\ store[last.key] = JSONStringify(last.rec)

(***************************************************************************)
(* HiveStorageConfig.migrateStorage                                        *)
(***************************************************************************)

MigrateKeys == {<<"a">>, <<"b">>, <<"c">>}

\* MigrateStep counting a copy whose set was never carried out.
MigrateStepMutant(acc, key, fail, from) ==
  IF fail = "none"
    THEN [acc EXCEPT !.migrated = acc.migrated + 1,
                     !.attempted = Append(acc.attempted, key)]
    ELSE [acc EXCEPT !.errors = acc.errors + 1,
                     !.attempted = Append(acc.attempted, key)]

\* One iteration of the for loop: fail names the call that throws for this
\* key ("get", "set") or is "none".
MigrateStep(acc, key, fail, from) ==
  IF fail = "none"
    THEN [acc EXCEPT !.to = Put(acc.to, key, from[key]),
                     !.migrated = acc.migrated + 1,
                     !.attempted = Append(acc.attempted, key)]
    ELSE [acc EXCEPT !.errors = acc.errors + 1,
                     !.attempted = Append(acc.attempted, key)]

\* MigrateLoop leaving the loop at the first key that fails.
RECURSIVE MigrateLoopMutant(_, _, _, _, _)
MigrateLoopMutant(to, from, allKeys, fails, n) ==
  IF n = 0 THEN [to |-> to, migrated |-> 0, errors |-> 0, attempted |-> <<>>]
  ELSE LET acc == MigrateLoopMutant(to, from, allKeys, fails, n - 1)
       IN IF acc.errors > 0 THEN acc
          ELSE MigrateStep(acc, allKeys[n], fails[allKeys[n]], from)

\* The for loop over the first n keys of allKeys.
RECURSIVE MigrateLoop(_, _, _, _, _)
MigrateLoop(to, from, allKeys, fails, n) ==
  IF n = 0 THEN [to |-> to, migrated |-> 0, errors |-> 0, attempted |-> <<>>]
  ELSE MigrateStep(MigrateLoop(to, from, allKeys, fails, n - 1),
                   allKeys[n], fails[allKeys[n]], from)

NoMigration ==
  [state |-> "none", migrated |-> 0, errors |-> 0, total |-> 0, attempted |-> <<>>,
   preTo |-> <<>>, fails |-> <<>>, listThrows |-> FALSE]

\* migrateStorage(fromConfig, toConfig)
MigrateStorage(listThrows, fails) ==
  /\ IF listThrows
       THEN /\ \A k \in DOMAIN fails : fails[k] = "none"
            /\ toStore' = toStore
            /\ mig' = [NoMigration EXCEPT !.state = "threw", !.preTo = toStore,
                                          !.fails = fails, !.listThrows = TRUE]
       ELSE LET allKeys == List(fromStore)
                res == MigrateLoop(toStore, fromStore, allKeys, fails, Len(allKeys))
            IN /\ toStore' = res.to
               /\ mig' = [state |-> "returned", migrated |-> res.migrated,
                          errors |-> res.errors, total |-> Len(allKeys),
                          attempted |-> res.attempted, preTo |-> toStore,
                          fails |-> fails, listThrows |-> FALSE]
  /\ UNCHANGED fromStore
  /\ UNCHANGED <<configVars, backupVars, syncVars, cryptoVars, scriptVars>>

MigrateStores ==
  UNION {[D -> {Text(v) : v \in Values}] : D \in SUBSET MigrateKeys}

InitMigrate ==
  /\ fromStore \in MigrateStores
  /\ toStore \in MigrateStores
  /\ mig = NoMigration
  /\ ConfigIdle /\ BackupIdle /\ SyncIdle /\ CryptoIdle /\ ScriptsIdle

NextMigrate ==
  \/ \E l \in BOOLEAN, fails \in [DOMAIN fromStore -> {"none", "get", "set"}] :
       MigrateStorage(l, fails)

SpecMigrate == InitMigrate /\ [][NextMigrate]_vars

Failing == {k \in DOMAIN mig.fails : mig.fails[k] # "none"}

\* C9: migrateStorage attempts every listed key exactly once; a failing get
\* or set only increments errors and later keys are still copied; the result
\* has total = number of listed keys and migrated + errors = total; only a
\* failure of list() aborts the migration.
C9_MigrateCountsPerKey ==
  /\ mig.state = "threw" => mig.listThrows /\ toStore = mig.preTo
  /\ mig.state = "returned" =>
       /\ ~mig.listThrows
       /\ mig.attempted = List(fromStore)
       /\ mig.total = Len(List(fromStore))
       /\ mig.migrated + mig.errors = mig.total
       /\ mig.errors = Cardinality(Failing)
       /\ \A k \in DOMAIN fromStore \ Failing :
            k \in DOMAIN toStore /\ toStore[k] = fromStore[k]

C9_Witness ==
  /\ mig.state = "returned"
  /\ mig.total = 3
  /\ mig.fails[<<"a">>] = "get"
  /\ mig.fails[<<"b">>] = "set"
  /\ mig.migrated = 1
  /\ <<"c">> \notin DOMAIN mig.preTo
  /\ <<"c">> \in DOMAIN toStore

\* C10 as stated: when no copy fails the target holds every key of the source
\* with the source's payload, and migrated equals the number of keys readable
\* in the target afterward.
C10_MigratedEqualsTargetKeys ==
  (mig.state = "returned" /\ mig.errors = 0) =>
    /\ \A k \in DOMAIN fromStore : k \in DOMAIN toStore /\ toStore[k] = fromStore[k]
    /\ mig.migrated = Cardinality(DOMAIN toStore)

\* C10 amended: when no copy fails the target holds every key of the source
\* with the source's payload, and migrated equals the number of the source's
\* keys, each readable in the target afterward; keys the target held before
\* stay and are not counted.
C10_MigratedEqualsSourceKeys ==
  (mig.state = "returned" /\ mig.errors = 0) =>
    /\ \A k \in DOMAIN fromStore : k \in DOMAIN toStore /\ toStore[k] = fromStore[k]
    /\ mig.migrated = Cardinality(DOMAIN fromStore \cap DOMAIN toStore)
    /\ mig.migrated = Cardinality(DOMAIN fromStore)
    /\ \A k \in DOMAIN mig.preTo \ DOMAIN fromStore :
         k \in DOMAIN toStore /\ toStore[k] = mig.preTo[k]

C10_Witness ==
  /\ mig.state = "returned" /\ mig.errors = 0
  /\ mig.migrated = 2
  /\ Cardinality(DOMAIN toStore) = 3
  /\ \E k \in DOMAIN fromStore : k \in DOMAIN mig.preTo /\ mig.preTo[k] # fromStore[k]

(***************************************************************************)
(* The remote storage sync script: storage managers, DatabaseSyncer, main  *)
(***************************************************************************)

\* A file that does not exist, a file with content v last modified at t.
NoFile == [kind |-> "absent", val |-> "", mtime |-> 0]
File(v, t) == [kind |-> "text", val |-> v, mtime |-> t]
\* fs.existsSync
ExistsSync(f) == f.kind # "absent"
\* fs.readFileSync: the content as a payload.
ReadFileSync(f) == Text(f.val)

\* A remote object: absent, or a body with the marker the upload set on it.
NoObject == [present |-> FALSE, body |-> Text(""), encrypted |-> FALSE]
Object(body, encrypted) == [present |-> TRUE, body |-> body, encrypted |-> encrypted]

\* backupInfo of uploadDatabase, the metadata record.
BackupInfo(t, dbData) ==
  [timestamp |-> t, size |-> Len(dbData.val), checksum |-> Sha256(dbData), version |-> "1.0"]

\* JavaScript values bound to the name `encrypt` / `decrypt`.
TrueValue == "true"
\* What a name resolves to inside upload(key, data, encrypt = true) and
\* download(key, decrypt = true): the parameter shadows the module's function.
ScopeLookup(paramValue, moduleFunction) == paramValue
Truthy(v) == v # "false"
IsFunction(v) == v \in {"function encrypt", "function decrypt"}

\* encrypt(data, key): the envelope.
Encrypt(data) == [kind |-> "envelope", val |-> data.val]

\* S3StorageManager.upload / RemoteAPIStorageManager.upload: what they send
\* and whether they throw. accepts: the remote accepts the write.
ManagerUpload(data, encryptParam, accepts) ==
  LET encrypt == ScopeLookup(encryptParam, "function encrypt")
  IN IF Truthy(encrypt) /\ ~IsFunction(encrypt)
       THEN [status |-> "throw", sent |-> NoObject]
       ELSE IF ~accepts
       THEN [status |-> "throw", sent |-> NoObject]
       ELSE IF Truthy(encrypt)
       THEN [status |-> "ok", sent |-> Object(JSONStringify(Encrypt(data)), TRUE)]
       ELSE [status |-> "ok", sent |-> Object(data, FALSE)]

\* S3StorageManager.download / RemoteAPIStorageManager.download.
\* answers: the remote answers the request.
ManagerDownload(obj, decryptParam, answers) ==
  LET decrypt == ScopeLookup(decryptParam, "function decrypt")
  IN IF ~answers THEN [status |-> "throw", data |-> Text("")]
     ELSE IF ~obj.present THEN [status |-> "null", data |-> Text("")]
     ELSE IF Truthy(decrypt) /\ obj.encrypted
       THEN [status |-> "throw", data |-> Text("")]
       ELSE [status |-> "data", data |-> obj.body]

NoResult == [status |-> "none", data |-> Text("")]

\* !x for a download result: null or the empty string.
Falsy(res) == res.status = "null" \/ (res.data.kind = "text" /\ res.data.val = "")

\* ChecksumVerified with the comparison left out.
ChecksumVerifiedMutant(dbData, metadata) == TRUE

\* checksum !== metadata.checksum, negated.
ChecksumVerified(dbData, metadata) == Sha256(dbData) = metadata.checksum

NoProc ==
  [pc |-> "none", command |-> "", manager |-> "none", exit |-> -1, result |-> "na",
   atInit |-> NoFile, preLocal |-> NoFile, preRemote |-> <<>>, meta |-> NoResult,
   db |-> NoResult,
   fs |-> "none", backupAt |-> -1, accepts |-> <<>>, sent |-> <<>>, out |-> <<>>]

Commands == {"", "upload", "download", "status", "help", "sync"}

\* An initialize that does not look for the local database file.
InitializeMutant ==
  CASE cfg.storageType = "s3" -> IF ~cfg.sdk THEN "false" ELSE "true"
    [] cfg.storageType = "remote" -> "throw"
    [] OTHER -> "false"

\* DatabaseSyncer.initialize: TRUE, FALSE, or "throw".
Initialize ==
  CASE cfg.storageType = "s3" ->
         IF ~cfg.sdk THEN "false"
         ELSE IF ~ExistsSync(localDb) THEN "false" ELSE "true"
    [] cfg.storageType = "remote" -> "throw"   \* no initialize method
    [] OTHER -> "false"

ManagerFor(storageType) ==
  IF storageType \in {"s3", "remote"} THEN storageType ELSE "none"

\* main() up to the end of syncer.initialize().
Main(command) ==
  /\ proc.pc \in {"none", "exited"}
  /\ runs < MaxRuns
  /\ runs' = runs + 1
  /\ LET started == [NoProc EXCEPT !.command = command, !.atInit = localDb,
                                   !.preLocal = localDb, !.preRemote = remote]
     IN IF command = ""
          THEN proc' = [started EXCEPT !.pc = "exited", !.exit = 0]
          ELSE IF Initialize = "true"
          THEN proc' = [started EXCEPT !.pc = "initialized",
                                       !.manager = ManagerFor(cfg.storageType)]
          ELSE proc' = [started EXCEPT !.pc = "exited", !.exit = 1,
                                       !.manager = ManagerFor(cfg.storageType)]
  /\ UNCHANGED <<cfg, localDb, remote, backups, clock>>
  /\ UNCHANGED <<configVars, backupVars, migrateVars, cryptoVars, scriptVars>>

\* An end of the process that turns a failed subcommand into exit code 1.
FinishMutant(fields) ==
  proc' = [x \in DOMAIN proc |->
             IF x \in DOMAIN fields THEN fields[x]
             ELSE IF x = "pc" THEN "exited"
             ELSE IF x = "exit"
               THEN IF "result" \in DOMAIN fields /\ fields["result"] = "false" THEN 1 ELSE 0
             ELSE IF x = "preLocal" THEN localDb
             ELSE IF x = "preRemote" THEN remote
             ELSE proc[x]]

\* The subcommand returns and main ends: the process exits with code 0
\* unless process.exit was called.
Finish(fields) ==
  proc' = [x \in DOMAIN proc |->
             IF x \in DOMAIN fields THEN fields[x]
             ELSE IF x = "pc" THEN "exited"
             ELSE IF x = "exit" THEN 0
             ELSE IF x = "preLocal" THEN localDb
             ELSE IF x = "preRemote" THEN remote
             ELSE proc[x]]

\* An upload that sends the metadata first, unencrypted, and the payload after.
UploadDatabaseMutant(a1, a2) ==
  /\ proc.pc = "initialized" /\ proc.command = "upload"
  /\ IF ~ExistsSync(localDb)
       THEN /\ a1 /\ a2
            /\ Finish([result |-> "false", accepts |-> <<a1, a2>>])
            /\ UNCHANGED remote
       ELSE LET dbData == ReadFileSync(localDb)
                backupInfo == BackupInfo(clock, dbData)
                up1 == ManagerUpload(JSONStringify(backupInfo), "false", a1)
                up2 == ManagerUpload(dbData, TrueValue, a2)
            IN IF up1.status = "throw"
                 THEN /\ a2
                      /\ Finish([result |-> "false", accepts |-> <<a1, a2>>])
                      /\ UNCHANGED remote
                 ELSE IF up2.status = "throw"
                 THEN /\ Finish([result |-> "false", accepts |-> <<a1, a2>>,
                                 sent |-> <<"metadata.json">>])
                      /\ remote' = [remote EXCEPT !["metadata.json"] = up1.sent]
                 ELSE /\ Finish([result |-> "true", accepts |-> <<a1, a2>>,
                                 sent |-> <<"metadata.json", "db.sqlite">>])
                      /\ remote' = [remote EXCEPT !["db.sqlite"] = up2.sent,
                                                  !["metadata.json"] = up1.sent]
  /\ UNCHANGED <<cfg, localDb, backups, clock, runs>>
  /\ UNCHANGED <<configVars, backupVars, migrateVars, cryptoVars, scriptVars>>

\* uploadDatabase; a1, a2: the remote accepts the first, the second write.
UploadDatabase(a1, a2) ==
  /\ proc.pc = "initialized" /\ proc.command = "upload"
  /\ IF ~ExistsSync(localDb)
       THEN /\ a1 /\ a2
            /\ Finish([result |-> "false", accepts |-> <<a1, a2>>])
            /\ UNCHANGED remote
       ELSE LET dbData == ReadFileSync(localDb)
                backupInfo == BackupInfo(clock, dbData)
                up1 == ManagerUpload(dbData, TrueValue, a1)
                up2 == ManagerUpload(JSONStringify(backupInfo), TrueValue, a2)
            IN IF up1.status = "throw"
                 THEN /\ a2
                      /\ Finish([result |-> "false", accepts |-> <<a1, a2>>])
                      /\ UNCHANGED remote
                 ELSE IF up2.status = "throw"
                 THEN /\ Finish([result |-> "false", accepts |-> <<a1, a2>>,
                                 sent |-> <<"db.sqlite">>])
                      /\ remote' = [remote EXCEPT !["db.sqlite"] = up1.sent]
                 ELSE /\ Finish([result |-> "true", accepts |-> <<a1, a2>>,
                                 sent |-> <<"db.sqlite", "metadata.json">>])
                      /\ remote' = [remote EXCEPT !["db.sqlite"] = up1.sent,
                                                  !["metadata.json"] = up2.sent]
  /\ UNCHANGED <<cfg, localDb, backups, clock, runs>>
  /\ UNCHANGED <<configVars, backupVars, migrateVars, cryptoVars, scriptVars>>

FsOutcomes == {"ok", "mkdirThrows", "copyThrows", "writeThrows", "writeTruncates"}

\* DownloadWrite writing the download first and copying afterwards, whatever
\* the copy does.
DownloadWriteMutant(local, dirs, dbData, fs, t) ==
  IF fs = "writeThrows" THEN [local |-> local, dirs |-> dirs, result |-> "false", backupAt |-> -1]
  ELSE IF fs = "writeTruncates"
    THEN [local |-> File("", t), dirs |-> dirs, result |-> "false", backupAt |-> -1]
  ELSE IF ExistsSync(local) /\ fs \in {"mkdirThrows", "copyThrows"}
    THEN [local |-> File(dbData.val, t), dirs |-> dirs, result |-> "false", backupAt |-> -1]
  ELSE [local |-> File(dbData.val, t),
        dirs |-> IF ExistsSync(local) THEN Put(dirs, t, Text(dbData.val)) ELSE dirs,
        result |-> "true", backupAt |-> IF ExistsSync(local) THEN t ELSE -1]

\* The file-system part of downloadDatabase, once the checksum matched:
\* the local file, the backup directory and the result.
DownloadWrite(local, dirs, dbData, fs, t) ==
  IF ExistsSync(local) /\ fs \in {"mkdirThrows", "copyThrows"}
    THEN [local |-> local, dirs |-> dirs, result |-> "false", backupAt |-> -1]
  ELSE LET copied == IF ExistsSync(local) THEN Put(dirs, t, ReadFileSync(local)) ELSE dirs
           at == IF ExistsSync(local) THEN t ELSE -1
       IN IF fs = "writeThrows"
            THEN [local |-> local, dirs |-> copied, result |-> "false", backupAt |-> at]
          ELSE IF fs = "writeTruncates"
            THEN [local |-> File("", t), dirs |-> copied, result |-> "false", backupAt |-> at]
          ELSE [local |-> File(dbData.val, t), dirs |-> copied, result |-> "true",
                backupAt |-> at]

\* downloadDatabase; r1, r2: the remote answers the metadata, the payload
\* request; fs: what the file system does.
DownloadDatabase(r1, r2, fs) ==
  /\ proc.pc = "initialized" /\ proc.command = "download"
  /\ LET metadataData == ManagerDownload(remote["metadata.json"], TrueValue, r1)
         dbData == ManagerDownload(remote["db.sqlite"], TrueValue, r2)
     IN IF \/ metadataData.status = "throw"
           \/ Falsy(metadataData)
           \/ ~JSONParses(metadataData.data)
          THEN /\ r2 /\ fs = "ok"
               /\ Finish([result |-> "false", meta |-> metadataData])
               /\ UNCHANGED <<localDb, backups>>
          ELSE IF \/ dbData.status = "throw"
                  \/ Falsy(dbData)
                  \/ ~ChecksumVerified(dbData.data, JSONParse(metadataData.data))
          THEN /\ fs = "ok"
               /\ Finish([result |-> "false", meta |-> metadataData, db |-> dbData])
               /\ UNCHANGED <<localDb, backups>>
          ELSE LET w == DownloadWrite(localDb, backups, dbData.data, fs, clock)
               IN /\ localDb' = w.local
                  /\ backups' = w.dirs
                  /\ Finish([result |-> w.result, meta |-> metadataData, db |-> dbData,
                             fs |-> fs, backupAt |-> w.backupAt])
  /\ UNCHANGED <<cfg, remote, clock, runs>>
  /\ UNCHANGED <<configVars, backupVars, migrateVars, cryptoVars, scriptVars>>

\* The sync direction with the two comparisons answering the other way.
RecommendationMutant(localTime, remoteTime) ==
  IF localTime < remoteTime THEN <<"upload recommended">>
  ELSE IF remoteTime < localTime THEN <<"download recommended">>
  ELSE <<"in sync">>

\* syncStatus, "Determine sync direction": the line printed for the two dates.
Recommendation(localTime, remoteTime) ==
  IF localTime > remoteTime THEN <<"upload recommended">>
  ELSE IF remoteTime > localTime THEN <<"download recommended">>
  ELSE <<"in sync">>

\* syncStatus; r: the remote answers the metadata request.
SyncStatus(r) ==
  /\ proc.pc = "initialized" /\ proc.command = "status"
  /\ LET metadataData == ManagerDownload(remote["metadata.json"], TrueValue, r)
     IN IF metadataData.status = "throw"
             \/ (~Falsy(metadataData) /\ ~JSONParses(metadataData.data))
          THEN Finish([result |-> "false", meta |-> metadataData])
          ELSE LET hasRemote == ~Falsy(metadataData)
                   remoteTime == IF hasRemote THEN JSONParse(metadataData.data).timestamp ELSE 0
                   lines == <<IF ExistsSync(localDb) THEN "Local: found" ELSE "Local: Not found",
                              IF hasRemote THEN "Remote: found" ELSE "Remote: Not found">>
                   advice == IF ExistsSync(localDb) /\ hasRemote
                               THEN Recommendation(localDb.mtime, remoteTime)
                               ELSE <<>>
               IN Finish([result |-> "true", meta |-> metadataData, out |-> lines \o advice])
  /\ UNCHANGED <<cfg, localDb, remote, backups, clock, runs>>
  /\ UNCHANGED <<configVars, backupVars, migrateVars, cryptoVars, scriptVars>>

\* The other cases of main's switch: help, and an unknown command.
OtherCommand ==
  /\ proc.pc = "initialized" /\ proc.command \notin {"upload", "download", "status"}
  /\ IF proc.command = "help"
       THEN Finish([result |-> "na"])
       ELSE Finish([result |-> "na", exit |-> 1])
  /\ UNCHANGED <<cfg, localDb, remote, backups, clock, runs>>
  /\ UNCHANGED <<configVars, backupVars, migrateVars, cryptoVars, scriptVars>>

\* The application writes or removes its database file while the script runs.
AppWritesDb(v) ==
  /\ proc.pc \in {"none", "initialized"}
  /\ localDb' = IF v = "" THEN NoFile ELSE File(v, clock)
  /\ localDb' # localDb
  /\ UNCHANGED <<cfg, remote, backups, clock, proc, runs>>
  /\ UNCHANGED <<configVars, backupVars, migrateVars, cryptoVars, scriptVars>>

SyncTick ==
  /\ clock < MaxClock
  /\ proc.pc \in {"none", "initialized"}
  /\ clock' = clock + 1
  /\ UNCHANGED <<cfg, localDb, remote, backups, proc, runs>>
  /\ UNCHANGED <<configVars, backupVars, migrateVars, cryptoVars, scriptVars>>

Contents == {"d1", "d2"}

\* What another uploader may have left under 'metadata.json' and 'db.sqlite'.
RemoteMetadata ==
  {NoObject, Object(Text("not json"), FALSE), Object(Text(""), FALSE)}
    \cup {Object(JSONStringify(BackupInfo(t, Text(v))), FALSE) :
            t \in 0..MaxClock, v \in Contents}
RemotePayloads ==
  {NoObject, Object(Text(""), FALSE), Object(JSONStringify(Encrypt(Text("d1"))), TRUE)}
    \cup {Object(Text(v), FALSE) : v \in Contents}

InitSync ==
  /\ cfg \in [storageType : {"disk", "s3", "remote", "replication"}, sdk : BOOLEAN,
              endpoint : BOOLEAN]
  /\ localDb \in {NoFile, File("d1", 0)}
  /\ remote \in [{"metadata.json", "db.sqlite"} -> RemoteMetadata \cup RemotePayloads]
  /\ remote["metadata.json"] \in RemoteMetadata
  /\ remote["db.sqlite"] \in RemotePayloads
  /\ backups = <<>>
  /\ clock = 0
  /\ proc = NoProc
  /\ runs = 0
  /\ ConfigIdle /\ BackupIdle /\ MigrateIdle /\ CryptoIdle /\ ScriptsIdle

NextSync ==
  \/ \E command \in Commands : Main(command)
  \/ \E a1, a2 \in BOOLEAN : UploadDatabase(a1, a2)
  \/ \E r1, r2 \in BOOLEAN, fs \in FsOutcomes : DownloadDatabase(r1, r2, fs)
  \/ \E r \in BOOLEAN : SyncStatus(r)
  \/ OtherCommand
  \/ \E v \in Contents \cup {""} : AppWritesDb(v)
  \/ SyncTick

SpecSync == InitSync /\ [][NextSync]_vars

\* ---------------------------------------------------------------- claims

Downloaded == proc.pc = "exited" /\ proc.command = "download"
Uploaded == proc.pc = "exited" /\ proc.command = "upload"

\* C6: sync download overwrites the local database file only if the remote
\* metadata exists, the remote payload exists and the SHA-256 recomputed over
\* the downloaded payload equals the metadata checksum; in every other outcome
\* the local database file is left unchanged.
C6_DownloadOverwritesOnlyVerified ==
  (Downloaded /\ localDb # proc.preLocal) =>
    /\ remote["metadata.json"].present
    /\ remote["db.sqlite"].present
    /\ proc.meta.status = "data" /\ proc.meta.data = remote["metadata.json"].body
    /\ proc.db.status = "data" /\ proc.db.data = remote["db.sqlite"].body
    /\ JSONParses(proc.meta.data)
    /\ Sha256(proc.db.data) = JSONParse(proc.meta.data).checksum

C6_Witness ==
  /\ Downloaded /\ proc.result = "true"
  /\ ExistsSync(proc.preLocal)
  /\ localDb.val # proc.preLocal.val
  /\ localDb.val = remote["db.sqlite"].body.val

\* C7: whenever sync download overwrites an existing local database file, a
\* copy of its pre-overwrite content has been written to the backup directory;
\* if making that copy fails, the local file is not overwritten.
C7_BackupBeforeOverwrite ==
  (Downloaded /\ ExistsSync(proc.preLocal)) =>
    /\ localDb # proc.preLocal =>
         /\ proc.backupAt \in DOMAIN backups
         /\ backups[proc.backupAt] = ReadFileSync(proc.preLocal)
    /\ proc.fs \in {"mkdirThrows", "copyThrows"} => localDb = proc.preLocal

C7_Witness ==
  /\ Downloaded /\ proc.result = "true"
  /\ ExistsSync(proc.preLocal)
  /\ localDb.val # proc.preLocal.val
  /\ proc.backupAt \in DOMAIN backups
  /\ backups[proc.backupAt].val = proc.preLocal.val

\* What 'db.sqlite' and 'metadata.json' hold after an upload of dbData at t
\* that stored both, encrypted or not.
StoredAs(payload) == {Object(payload, FALSE), Object(JSONStringify(Encrypt(payload)), TRUE)}

\* C8: when the local database file exists and the remote accepts both
\* writes, sync upload stores the file contents under 'db.sqlite' and a
\* metadata record under 'metadata.json' whose checksum is the SHA-256 of the
\* file and whose size is its byte length, and reports success.
C8_UploadStoresPayloadAndMetadata ==
  (Uploaded /\ ExistsSync(proc.preLocal) /\ proc.accepts = <<TRUE, TRUE>>) =>
    /\ proc.result = "true"
    /\ remote["db.sqlite"] \in StoredAs(ReadFileSync(proc.preLocal))
    /\ \E t \in 0..MaxClock :
         remote["metadata.json"]
           \in StoredAs(JSONStringify(BackupInfo(t, ReadFileSync(proc.preLocal))))

Exited == proc.pc = "exited"
Subcommands == {"upload", "download", "status"}

\* The run left everything as it found it: no remote upload, no payload or
\* metadata download, no write to the local file or the backup directory.
NoTransfer ==
  /\ localDb = proc.preLocal
  /\ remote = proc.preRemote
  /\ proc.sent = <<>>
  /\ proc.meta = NoResult /\ proc.db = NoResult
  /\ proc.backupAt = -1

\* C14: the sync script started with no command exits with code 1.
C14_NoCommandExitsOne ==
  (Exited /\ proc.command = "") => proc.exit = 1

\* C15: the command 'help' exits with code 0 for every storage
\* configuration, disk storage and a missing local database included, and
\* performs no remote or local write.
C15_HelpExitsZero ==
  (Exited /\ proc.command = "help") =>
    /\ proc.exit = 0
    /\ NoTransfer

\* The configurations in which DatabaseSyncer.initialize is to fail: disk
\* storage, an unsupported type, a storage manager that does not initialize,
\* no local database file at the time of the call.
InitFailure ==
  \/ cfg.storageType = "disk"
  \/ cfg.storageType \notin {"s3", "remote"}
  \/ cfg.storageType = "s3" /\ ~cfg.sdk
  \/ ~ExistsSync(proc.atInit)

\* C16: for an unknown command, or when initialization fails (disk storage,
\* unsupported type, the storage manager fails to initialize, the local
\* database is missing), the script exits with code 1 and performs no remote
\* upload, no payload download and no local write.
C16_FailureExitsOneWithoutTransfer ==
  (Exited /\ proc.command # ""
     /\ (proc.command \notin Subcommands \cup {"help"} \/ InitFailure)) =>
    /\ proc.exit = 1
    /\ NoTransfer

C16_Witness ==
  /\ Exited /\ proc.exit = 1
  /\ proc.command = "upload"
  /\ cfg.storageType = "s3" /\ cfg.sdk
  /\ ~ExistsSync(proc.atInit)
  /\ NoTransfer

\* C17: with HIVE_STORAGE_TYPE=remote, the endpoint configured and the local
\* database present, initialize succeeds and the requested subcommand runs
\* against the remote-API manager, as it does for s3: the process ends with
\* the subcommand's result and code 0.
C17_RemoteRunsSubcommand ==
  (Exited /\ cfg.storageType = "remote" /\ cfg.endpoint
     /\ ExistsSync(proc.atInit) /\ proc.command \in Subcommands) =>
    /\ proc.manager = "remote"
    /\ proc.result \in {"true", "false"}
    /\ proc.exit = 0

StatusShown == Exited /\ proc.command = "status" /\ proc.result = "true"

\* The metadata object under 'metadata.json' is there and not empty.
HasRemoteMetadata ==
  /\ remote["metadata.json"].present
  /\ remote["metadata.json"].body # Text("")

RemoteTimestamp == JSONParse(remote["metadata.json"].body).timestamp

\* C18: status prints a recommendation only when the local file and the
\* remote metadata are both present, and then exactly one of: upload
\* recommended (iff the local modification time is later), download
\* recommended (iff the remote timestamp is later), in sync (iff the two are
\* equal); when a side is absent it prints 'Not found' for that side and no
\* recommendation.
C18_StatusRecommendation ==
  StatusShown =>
    /\ Len(proc.out) \in {2, 3}
    /\ proc.out[1] = "Local: Not found" <=> ~ExistsSync(proc.preLocal)
    /\ proc.out[2] = "Remote: Not found" <=> ~HasRemoteMetadata
    /\ Len(proc.out) = 3 <=> (ExistsSync(proc.preLocal) /\ HasRemoteMetadata)
    /\ Len(proc.out) = 3 =>
         /\ proc.out[3] \in {"upload recommended", "download recommended", "in sync"}
         /\ proc.out[3] = "upload recommended" <=> proc.preLocal.mtime > RemoteTimestamp
         /\ proc.out[3] = "download recommended" <=> RemoteTimestamp > proc.preLocal.mtime
         /\ proc.out[3] = "in sync" <=> RemoteTimestamp = proc.preLocal.mtime

C18_Witness ==
  /\ StatusShown
  /\ ExistsSync(proc.preLocal) /\ HasRemoteMetadata
  /\ RemoteTimestamp > proc.preLocal.mtime
  /\ proc.out[3] = "download recommended"

\* uploadDatabase was called and has returned.
UploadRan == Uploaded /\ Len(proc.accepts) = 2

InitSuccess == cfg.storageType = "s3" /\ cfg.sdk /\ ExistsSync(proc.atInit)

\* C30: once initialization has succeeded, upload, download and status each
\* run once, end in exactly one of success and failure, and the process ends
\* with exit code 0 in both cases: a failed subcommand gives no non-zero
\* exit code.
C30_SubcommandExitsZero ==
  (Exited /\ InitSuccess /\ proc.command \in Subcommands) =>
    /\ proc.result \in {"true", "false"}
    /\ proc.exit = 0
    /\ Len(proc.sent) <= 2

C30_Witness ==
  /\ Exited /\ InitSuccess
  /\ proc.command = "download"
  /\ proc.result = "false"
  /\ proc.exit = 0

(***************************************************************************)
(* encrypt(data, key) and decrypt(encryptedData, key) of the sync script   *)
(***************************************************************************)

\* What is handed to encrypt: a string, or a Buffer as fs.readFileSync
\* returns one; utf8 says whether the bytes are well-formed UTF-8.
Str(v) == [type |-> "string", val |-> v, utf8 |-> TRUE]
Buf(v, utf8) == [type |-> "buffer", val |-> v, utf8 |-> utf8]
NoData == [type |-> "none", val |-> "", utf8 |-> TRUE]

\* The bytes cipher.update(data, 'utf8') takes in: the UTF-8 encoding of a
\* string, a Buffer as it is.
Utf8Bytes(data) == [val |-> data.val, utf8 |-> data.utf8]

\* Buffer.toString('utf8'): always a string; bytes that are not UTF-8 come
\* out as U+FFFD.
ToStringUtf8(bytes) == IF bytes.utf8 THEN Str(bytes.val) ELSE Str("U+FFFD")

\* AES-256-GCM under the key derived from `key`, AAD 'hive-database': the
\* ciphertext and the tag, each determined by the bytes and the key.
Ciphertext(bytes, key) == [bytes |-> bytes, key |-> key]
AuthTag(bytes, key) == [bytes |-> bytes, key |-> key, aad |-> "hive-database"]

NoEnvelope ==
  [encrypted |-> Ciphertext(Utf8Bytes(NoData), ""), iv |-> 0,
   authTag |-> AuthTag(Utf8Bytes(NoData), "")]

\* encrypt(data, key). iv is crypto.randomBytes(16), stored in the envelope
\* and used by neither cipher; hasCreateCipher: the runtime's crypto module
\* still has the createCipher / createDecipher functions.
EncryptEnvelope(data, key, iv, hasCreateCipher) ==
  IF ~hasCreateCipher
    THEN [status |-> "throw", envelope |-> NoEnvelope]
    ELSE [status |-> "ok",
          envelope |-> [encrypted |-> Ciphertext(Utf8Bytes(data), key), iv |-> iv,
                        authTag |-> AuthTag(Utf8Bytes(data), key)]]

\* decrypt(encryptedData, key): decipher.final() throws unless the tag is
\* the one of this ciphertext under this key.
DecryptEnvelope(encryptedData, key, hasCreateCipher) ==
  IF ~hasCreateCipher
    THEN [status |-> "throw", data |-> NoData]
  ELSE IF \/ encryptedData.encrypted.key # key
          \/ encryptedData.authTag # AuthTag(encryptedData.encrypted.bytes, key)
    THEN [status |-> "throw", data |-> NoData]
  ELSE [status |-> "ok", data |-> ToStringUtf8(encryptedData.encrypted.bytes)]

NoCrypt ==
  [pc |-> "idle", hasCreateCipher |-> TRUE, data |-> NoData, key |-> "",
   envelope |-> NoEnvelope, tamper |-> "none", dkey |-> "",
   out |-> [status |-> "none", data |-> NoData]]

Keys == {"k1", "k2"}
Plaintexts == {Str(""), Str("p1"), Str("p2"), Buf("SQLite format 3", FALSE)}
Ivs == {0, 1}

CallEncrypt(data, key, iv) ==
  /\ crypt.pc = "idle"
  /\ LET e == EncryptEnvelope(data, key, iv, crypt.hasCreateCipher)
     IN crypt' = [crypt EXCEPT !.pc = IF e.status = "ok" THEN "encrypted" ELSE "encryptThrew",
                               !.data = data, !.key = key, !.envelope = e.envelope]
  /\ UNCHANGED <<configVars, backupVars, migrateVars, syncVars, scriptVars>>

\* Someone else changes the stored envelope's ciphertext or tag.
Tamper(part) ==
  /\ crypt.pc = "encrypted" /\ crypt.tamper = "none"
  /\ crypt' = [crypt EXCEPT
       !.tamper = part,
       !.envelope = IF part = "ciphertext"
                      THEN [@ EXCEPT !.encrypted.bytes = Utf8Bytes(Str("tampered"))]
                      ELSE [@ EXCEPT !.authTag.bytes = Utf8Bytes(Str("tampered"))]]
  /\ UNCHANGED <<configVars, backupVars, migrateVars, syncVars, scriptVars>>

CallDecrypt(key) ==
  /\ crypt.pc = "encrypted"
  /\ crypt' = [crypt EXCEPT !.pc = "decrypted", !.dkey = key,
                            !.out = DecryptEnvelope(crypt.envelope, key, crypt.hasCreateCipher)]
  /\ UNCHANGED <<configVars, backupVars, migrateVars, syncVars, scriptVars>>

InitCrypto ==
  /\ crypt \in {[NoCrypt EXCEPT !.hasCreateCipher = h] : h \in BOOLEAN}
  /\ ConfigIdle /\ BackupIdle /\ MigrateIdle /\ SyncIdle /\ ScriptsIdle

NextCrypto ==
  \/ \E data \in Plaintexts, key \in Keys, iv \in Ivs : CallEncrypt(data, key, iv)
  \/ \E part \in {"ciphertext", "authTag"} : Tamper(part)
  \/ \E key \in Keys : CallDecrypt(key)

SpecCrypto == InitCrypto /\ [][NextCrypto]_vars

\* C19: decrypt(encrypt(P, K), K) = P for every payload P and key K, and
\* decrypting with a different key, or after the ciphertext or the authTag
\* was modified, fails with an error.
C19_EncryptDecryptRoundTrip ==
  /\ crypt.pc # "encryptThrew"
  /\ (crypt.pc = "decrypted" /\ crypt.dkey = crypt.key /\ crypt.tamper = "none") =>
       crypt.out = [status |-> "ok", data |-> crypt.data]
  /\ (crypt.pc = "decrypted" /\ (crypt.dkey # crypt.key \/ crypt.tamper # "none")) =>
       crypt.out.status = "throw"

(***************************************************************************)
(* scripts/backup-db.sh and restore-db.sh on one state directory           *)
(***************************************************************************)

\* The files under BLADE_STATE_DIR, held as file -> version of its content.
StateFiles == {"db.sqlite", "db.sqlite-wal"}
NoDir == [exists |-> FALSE, files |-> <<>>]
Dir(files) == [exists |-> TRUE, files |-> files]
FullDir(version) == Dir([f \in StateFiles |-> version])

\* An archive in BACKUP_DIR: the files tar put in it and its age in days.
Archive(files, age) == [files |-> files, age |-> age]
NoName == <<"", "">>
BladeDb(ts) == <<"blade-db-", ts>>
BeforeRestore(ts) == <<"before-restore-", ts>>

\* find -mtime +7: the age in whole days is greater than 7.
RetentionDays == 7

\* ls "$BACKUP_DIR"/blade-db-*.tar.gz
BladeDbArchives(files) == {n \in DOMAIN files : n[1] = "blade-db-"}

\* A cleanup that leaves out the age test.
OldBackupsMutant(files) == BladeDbArchives(files)

\* find "$BACKUP_DIR" -name "blade-db-*.tar.gz" -mtime +7
OldBackups(files) == {n \in BladeDbArchives(files) : files[n].age > RetentionDays}

NoBackupRun ==
  [pc |-> "none", exit |-> -1, file |-> NoName, preDir |-> NoDir, preFiles |-> <<>>,
   tarDir |-> NoDir, restoreAt |-> "none"]
NoRestoreRun ==
  [pc |-> "none", exit |-> -1, file |-> NoName, reply |-> "", preDir |-> NoDir,
   hadBackupDir |-> FALSE, preFiles |-> <<>>, saved |-> NoName]

\* backup-db.sh, lines 24-32: mkdir -p "$BACKUP_DIR", then the test for the
\* state directory.
BackupDbStart ==
  /\ bk.pc = "none"
  /\ backupDir' = [backupDir EXCEPT !.exists = TRUE]
  /\ LET started == [bk EXCEPT !.preDir = stateDir, !.preFiles = backupDir.files]
     IN bk' = IF stateDir.exists
                THEN [started EXCEPT !.pc = "tar"]
                ELSE [started EXCEPT !.pc = "exited", !.exit = 1]
  /\ UNCHANGED <<stateDir, rs>>
  /\ UNCHANGED <<configVars, backupVars, migrateVars, syncVars, cryptoVars>>

TarOutcomes == {"ok", "fails", "failsLeavingFile"}

\* A tar that waits while restore-db.sh is between removing and verifying.
BackupDbTarMutant(outcome) ==
  /\ bk.pc = "tar"
  /\ rs.pc \notin {"remove", "extract", "verify"}
  /\ outcome \in TarOutcomes
  /\ stateDir.exists \/ outcome # "ok"
  /\ IF outcome = "ok"
       THEN /\ bk' = [bk EXCEPT !.pc = "verify", !.file = BladeDb("now"),
                                !.tarDir = stateDir, !.restoreAt = rs.pc]
            /\ backupDir' = [backupDir EXCEPT
                 !.files = Put(@, BladeDb("now"), Archive(stateDir.files, 0))]
       ELSE /\ bk' = [bk EXCEPT !.pc = "exited", !.exit = 2, !.tarDir = stateDir,
                                !.restoreAt = rs.pc]
            /\ backupDir' = IF outcome = "failsLeavingFile"
                              THEN [backupDir EXCEPT
                                      !.files = Put(@, BladeDb("now"), Archive(<<>>, 0))]
                              ELSE backupDir
  /\ UNCHANGED <<stateDir, rs>>
  /\ UNCHANGED <<configVars, backupVars, migrateVars, syncVars, cryptoVars>>

\* backup-db.sh, line 43: tar czf of the state directory as it is now. tar
\* fails when the directory is gone (or for a reason of its own), and set -e
\* ends the script; the archive file may or may not be left behind.
BackupDbTar(outcome) ==
  /\ bk.pc = "tar"
  /\ outcome \in TarOutcomes
  /\ stateDir.exists \/ outcome # "ok"
  /\ IF outcome = "ok"
       THEN /\ bk' = [bk EXCEPT !.pc = "verify", !.file = BladeDb("now"),
                                !.tarDir = stateDir, !.restoreAt = rs.pc]
            /\ backupDir' = [backupDir EXCEPT
                 !.files = Put(@, BladeDb("now"), Archive(stateDir.files, 0))]
       ELSE /\ bk' = [bk EXCEPT !.pc = "exited", !.exit = 2, !.tarDir = stateDir,
                                !.restoreAt = rs.pc]
            /\ backupDir' = IF outcome = "failsLeavingFile"
                              THEN [backupDir EXCEPT
                                      !.files = Put(@, BladeDb("now"), Archive(<<>>, 0))]
                              ELSE backupDir
  /\ UNCHANGED <<stateDir, rs>>
  /\ UNCHANGED <<configVars, backupVars, migrateVars, syncVars, cryptoVars>>

\* backup-db.sh, lines 45-64: the test for the new archive, then the cleanup.
BackupDbCleanup ==
  /\ bk.pc = "verify"
  /\ IF bk.file \in DOMAIN backupDir.files
       THEN /\ backupDir' = [backupDir EXCEPT
                 !.files = [n \in DOMAIN @ \ OldBackups(@) |-> @[n]]]
            /\ bk' = [bk EXCEPT !.pc = "exited", !.exit = 0]
       ELSE /\ bk' = [bk EXCEPT !.pc = "exited", !.exit = 1]
            /\ UNCHANGED backupDir
  /\ UNCHANGED <<stateDir, rs>>
  /\ UNCHANGED <<configVars, backupVars, migrateVars, syncVars, cryptoVars>>

Replies == {"y", "Y", "n"}

\* restore-db.sh, lines 22-67: the backup directory, the list of backups,
\* the file named by $1 or typed at the prompt, the confirmation.
RestoreDbStart(file, reply) ==
  /\ rs.pc = "none"
  /\ LET started == [rs EXCEPT !.file = file, !.reply = reply, !.preDir = stateDir,
                               !.hadBackupDir = backupDir.exists,
                               !.preFiles = backupDir.files]
     IN rs' = IF ~backupDir.exists \/ BladeDbArchives(backupDir.files) = {}
                   \/ file \notin DOMAIN backupDir.files
                THEN [started EXCEPT !.pc = "exited", !.exit = 1]
              ELSE IF reply \notin {"y", "Y"}
                THEN [started EXCEPT !.pc = "exited", !.exit = 0]
              ELSE [started EXCEPT !.pc = "save"]
  /\ UNCHANGED <<stateDir, backupDir, bk>>
  /\ UNCHANGED <<configVars, backupVars, migrateVars, syncVars, cryptoVars>>

\* A restore that goes on to remove the directory after its tar failed.
RestoreDbSaveCurrentMutant(tarOk) ==
  /\ rs.pc = "save"
  /\ IF ~stateDir.exists
       THEN /\ tarOk
            /\ rs' = [rs EXCEPT !.pc = "remove"]
            /\ UNCHANGED backupDir
       ELSE IF tarOk
       THEN /\ rs' = [rs EXCEPT !.pc = "remove", !.saved = BeforeRestore("now")]
            /\ backupDir' = [backupDir EXCEPT
                 !.files = Put(@, BeforeRestore("now"), Archive(stateDir.files, 0))]
       ELSE /\ rs' = [rs EXCEPT !.pc = "remove"]
            /\ UNCHANGED backupDir
  /\ UNCHANGED <<stateDir, bk>>
  /\ UNCHANGED <<configVars, backupVars, migrateVars, syncVars, cryptoVars>>

\* restore-db.sh, lines 69-74: the before-restore archive of the current
\* state; a failing tar ends the script (set -e).
RestoreDbSaveCurrent(tarOk) ==
  /\ rs.pc = "save"
  /\ IF ~stateDir.exists
       THEN /\ tarOk
            /\ rs' = [rs EXCEPT !.pc = "remove"]
            /\ UNCHANGED backupDir
       ELSE IF tarOk
       THEN /\ rs' = [rs EXCEPT !.pc = "remove", !.saved = BeforeRestore("now")]
            /\ backupDir' = [backupDir EXCEPT
                 !.files = Put(@, BeforeRestore("now"), Archive(stateDir.files, 0))]
       ELSE /\ rs' = [rs EXCEPT !.pc = "exited", !.exit = 2]
            /\ UNCHANGED backupDir
  /\ UNCHANGED <<stateDir, bk>>
  /\ UNCHANGED <<configVars, backupVars, migrateVars, syncVars, cryptoVars>>

\* restore-db.sh, lines 76-80: rm -rf removes the files one by one, in no
\* fixed order, and the directory last.
RestoreDbRemove(f) ==
  /\ rs.pc = "remove"
  /\ IF ~stateDir.exists
       THEN /\ f = "db.sqlite"
            /\ rs' = [rs EXCEPT !.pc = "extract"]
            /\ UNCHANGED stateDir
       ELSE IF DOMAIN stateDir.files = {}
       THEN /\ f = "db.sqlite"
            /\ stateDir' = NoDir
            /\ rs' = [rs EXCEPT !.pc = "extract"]
       ELSE /\ f \in DOMAIN stateDir.files
            /\ stateDir' = Dir(Without(stateDir.files, f))
            /\ UNCHANGED rs
  /\ UNCHANGED <<backupDir, bk>>
  /\ UNCHANGED <<configVars, backupVars, migrateVars, syncVars, cryptoVars>>

\* restore-db.sh, line 84: tar xzf creates the directory and then the files
\* of the archive one by one; it fails, and set -e ends the script, when the
\* archive is no longer there.
RestoreDbExtract(f) ==
  /\ rs.pc = "extract"
  /\ IF rs.file \notin DOMAIN backupDir.files
       THEN /\ f = "db.sqlite"
            /\ rs' = [rs EXCEPT !.pc = "exited", !.exit = 2]
            /\ UNCHANGED stateDir
       ELSE LET content == backupDir.files[rs.file].files
                todo == {x \in DOMAIN content :
                           x \notin DOMAIN stateDir.files \/ stateDir.files[x] # content[x]}
            IN IF ~stateDir.exists
                 THEN /\ f = "db.sqlite"
                      /\ stateDir' = Dir(<<>>)
                      /\ UNCHANGED rs
               ELSE IF todo = {}
                 THEN /\ f = "db.sqlite"
                      /\ rs' = [rs EXCEPT !.pc = "verify"]
                      /\ UNCHANGED stateDir
               ELSE /\ f \in todo
                    /\ stateDir' = Dir(Put(stateDir.files, f, content[f]))
                    /\ UNCHANGED rs
  /\ UNCHANGED <<backupDir, bk>>
  /\ UNCHANGED <<configVars, backupVars, migrateVars, syncVars, cryptoVars>>

\* restore-db.sh, lines 86-109: the database file must be there.
RestoreDbVerify ==
  /\ rs.pc = "verify"
  /\ rs' = [rs EXCEPT !.pc = "exited",
                      !.exit = IF stateDir.exists /\ "db.sqlite" \in DOMAIN stateDir.files
                                 THEN 0 ELSE 1]
  /\ UNCHANGED <<stateDir, backupDir, bk>>
  /\ UNCHANGED <<configVars, backupVars, migrateVars, syncVars, cryptoVars>>

\* The archives BACKUP_DIR may hold at the start.
InitialArchives ==
  BladeDb("old") :> Archive([f \in StateFiles |-> "bak"], RetentionDays + 1)
    @@ BladeDb("recent") :> Archive([f \in StateFiles |-> "bak"], RetentionDays)
    @@ BeforeRestore("old") :> Archive([f \in StateFiles |-> "bak"], RetentionDays + 1)

RestoreArguments == DOMAIN InitialArchives \cup {BladeDb("missing")}

InitScripts ==
  /\ stateDir \in {NoDir, FullDir("cur")}
  /\ \/ backupDir = [exists |-> FALSE, files |-> <<>>]
     \/ \E D \in SUBSET DOMAIN InitialArchives :
          backupDir = [exists |-> TRUE, files |-> [n \in D |-> InitialArchives[n]]]
  /\ bk = NoBackupRun
  /\ rs = NoRestoreRun
  /\ ConfigIdle /\ BackupIdle /\ MigrateIdle /\ SyncIdle /\ CryptoIdle

NextScripts ==
  \/ BackupDbStart
  \/ \E outcome \in TarOutcomes : BackupDbTar(outcome)
  \/ BackupDbCleanup
  \/ \E file \in RestoreArguments, reply \in Replies : RestoreDbStart(file, reply)
  \/ \E tarOk \in BOOLEAN : RestoreDbSaveCurrent(tarOk)
  \/ \E f \in StateFiles : RestoreDbRemove(f)
  \/ \E f \in StateFiles : RestoreDbExtract(f)
  \/ RestoreDbVerify

SpecScripts == InitScripts /\ [][NextScripts]_vars

\* ---------------------------------------------------------------- claims

\* The archive backup-db.sh has made, when it is there.
NewArchive == backupDir.files[bk.file]

\* C23: backup-db.sh and restore-db.sh take no lock: at every position of the
\* restore the backup's next step can be taken, so run side by side the
\* backup archives the state directory as it is at that moment, an
\* intermediate state of the restore (removed or partly extracted) included,
\* or fails because the directory is missing; the archive need not be the
\* complete state before the restore or the complete restored state.
C23_BackupRacesRestore ==
  /\ bk.pc = "none" => ENABLED BackupDbStart
  /\ bk.pc = "tar" => ENABLED (\E outcome \in TarOutcomes : BackupDbTar(outcome))
  /\ bk.pc = "verify" => ENABLED BackupDbCleanup
  /\ (bk.pc = "exited" /\ bk.exit = 0) =>
       bk.file \in DOMAIN backupDir.files /\ NewArchive.files = bk.tarDir.files
  /\ (bk.pc = "exited" /\ bk.preDir.exists /\ ~bk.tarDir.exists) => bk.exit = 2

C23_Witness ==
  /\ bk.pc = "exited" /\ bk.exit = 0
  /\ bk.preDir = FullDir("cur")
  /\ bk.restoreAt \in {"remove", "extract"}
  /\ bk.file \in DOMAIN backupDir.files
  /\ NewArchive.files # FullDir("cur").files
  /\ NewArchive.files # FullDir("bak").files

\* The state directory is no longer what it was when restore-db.sh started.
StateDirChanged == rs.pc # "none" /\ stateDir # rs.preDir

\* C24: restore-db.sh removes the existing state directory only after the
\* chosen backup file was found, the user confirmed with y or Y, and a
\* before-restore archive of the current state was created; when the backup
\* directory, every backup or the named file is missing it exits 1, when the
\* user declines it exits 0, and in both cases the state directory is as it
\* was.
C24_RemoveOnlyAfterSaving ==
  rs.pc # "none" =>
    /\ StateDirChanged =>
         /\ rs.hadBackupDir /\ rs.file \in DOMAIN rs.preFiles
         /\ rs.reply \in {"y", "Y"}
         /\ rs.preDir.exists =>
              \E n \in DOMAIN backupDir.files :
                /\ n[1] = "before-restore-"
                /\ n \notin DOMAIN rs.preFiles
                /\ backupDir.files[n].files = rs.preDir.files
    /\ (\/ ~rs.hadBackupDir
        \/ BladeDbArchives(rs.preFiles) = {}
        \/ rs.file \notin DOMAIN rs.preFiles) =>
         rs.pc = "exited" /\ rs.exit = 1 /\ stateDir = rs.preDir
    /\ (/\ rs.hadBackupDir /\ BladeDbArchives(rs.preFiles) # {}
        /\ rs.file \in DOMAIN rs.preFiles
        /\ rs.reply \notin {"y", "Y"}) =>
         rs.pc = "exited" /\ rs.exit = 0 /\ stateDir = rs.preDir

C24_Witness ==
  /\ rs.pc = "exited" /\ rs.exit = 0 /\ rs.reply = "Y"
  /\ rs.preDir = FullDir("cur")
  /\ stateDir = FullDir("bak")
  /\ rs.saved \in DOMAIN backupDir.files
  /\ backupDir.files[rs.saved].files = rs.preDir.files

\* The archives that were in BACKUP_DIR when backup-db.sh started and are
\* gone.
Deleted == DOMAIN bk.preFiles \ DOMAIN backupDir.files

\* C25: backup-db.sh deletes old archives only after the new archive
\* blade-db-<timestamp>.tar.gz was created and verified; it deletes only
\* blade-db-* archives older than 7 days, never the archive it has just
\* created and never a before-restore-* archive; when the state directory is
\* missing it exits 1 and has created or deleted no archive.
C25_CleanupAfterBackup ==
  bk.pc # "none" =>
    /\ Deleted # {} =>
         /\ bk.pc = "exited" /\ bk.exit = 0
         /\ bk.file = BladeDb("now") /\ bk.file \in DOMAIN backupDir.files
    /\ \A n \in Deleted :
         /\ n[1] = "blade-db-" /\ n[1] # "before-restore-"
         /\ bk.preFiles[n].age > 7
         /\ n # bk.file
    /\ (bk.pc = "exited" /\ bk.exit = 0) => bk.file \in DOMAIN backupDir.files
    /\ ~bk.preDir.exists =>
         /\ bk.pc = "exited" /\ bk.exit = 1
         /\ Deleted = {}
         /\ BladeDbArchives(backupDir.files) = BladeDbArchives(bk.preFiles)

C25_Witness ==
  /\ bk.pc = "exited" /\ bk.exit = 0
  /\ Deleted = {BladeDb("old")}
  /\ BladeDb("recent") \in DOMAIN backupDir.files
  /\ BeforeRestore("old") \in DOMAIN backupDir.files
  /\ bk.file \in DOMAIN backupDir.files

====
